---- MODULE Spec2Model ----
(***************************************************************************)
(* Model of src/hebbian.py: class Hebbian (a single-layer Hebbian          *)
(* classifier) with __init__, fit, net_input and predict.                  *)
(*                                                                         *)
(* Numbers.  eta and the weights are floats in the source.  The model      *)
(* keeps them in fixed point with denominator Denom: the integer E stands  *)
(* for the float E / Denom.  Feature values are whole numbers.  On these   *)
(* values (dyadic rationals of small magnitude) every float operation of   *)
(* the source is exact, so the integer arithmetic below is the arithmetic  *)
(* numpy performs.  net_input >= 80.0 becomes net >= Threshold * Denom.    *)
(*                                                                         *)
(* The weight vector w_ is a function on 0..n_features, indexed as in the  *)
(* source: w_[0] is the bias, w_[1..] the feature weights.                 *)
(***************************************************************************)
EXTENDS Integers, Sequences, FiniteSets, TLC

VARIABLES
    eta,        \* self.eta, in units of 1/Denom
    n_iter,     \* self.n_iter
    attrs,      \* which of the attributes w_, errors_ the instance has
    w_,         \* self.w_ (meaningful when "w_" \in attrs)
    errors_,    \* self.errors_ (meaningful when "errors_" \in attrs)
    pc,         \* position of the running fit call, "idle" when none runs
    X,          \* fit's argument X (of the running or of the last started fit)
    y,          \* fit's argument y
    epoch,      \* number of finished iterations of the loop of line 37
    i,          \* 1-based position of the loop of line 43 in zip(X, y)
    errors,     \* fit's local counter errors
    refit,      \* whether the instance already had w_ when this fit was called
    call,       \* the last method called: "none", "fit", "net_input", "predict"
    arg,        \* the argument of the last net_input / predict call
    out         \* how the last call ended

vars == <<eta, n_iter, attrs, w_, errors_, pc, X, y, epoch, i, errors,
          refit, call, arg, out>>

----------------------------------------------------------------------------
(* Bounds of the model *)

MaxSamples == 2

MaxIter == 2

(* Program constants *)

Threshold == 80

Denom == 2

(* Input sets *)

\* learning rates -1.0, 0.0, 0.5 (the default of line 16), 1.0
EtaVals == {-2, 0, 1, 2}

Labels == {-1, 1}

SampleRows == {<<9>>, <<-9>>, <<1, 2>>, <<0, 0>>}

FeatureCounts == {Len(r) : r \in SampleRows}

RowsOf(n) == {r \in SampleRows : Len(r) = n}

RowSeqs(n, lo, hi) == UNION {[1..k -> RowsOf(n)] : k \in lo..hi}

\* a 2-d array of shape (Len(rows), nf); zero rows is np.empty((0, nf))
Matrices ==
    UNION {{[ndim |-> 2, nf |-> n, rows |-> r] : r \in RowSeqs(n, 0, MaxSamples)} :
            n \in FeatureCounts}

\* np.array([]): a 1-d array of shape (0,)
EmptyFlat == [ndim |-> 1, nf |-> 0, rows |-> <<>>]

FitInputs == Matrices \cup {EmptyFlat}

\* label sequences as long as X, or one shorter (zip then drops the last sample)
LabelSeqs(Xa) ==
    UNION {[1..k -> Labels] : k \in {Len(Xa.rows), Len(Xa.rows) - 1} \cap Nat}

Batches == {<<<<9>>, <<-9>>>>, <<<<1, 2>>, <<0, 0>>, <<1, 2>>>>}

NoArg == [batch |-> FALSE, rows |-> <<>>]

\* a single sample (1-d) or a batch (2-d) handed to net_input / predict
CallInputs ==
    {[batch |-> FALSE, rows |-> <<r>>] : r \in SampleRows}
    \cup {[batch |-> TRUE, rows |-> r] : r \in Batches}

----------------------------------------------------------------------------
(* Outcomes of a call *)

Nothing == [kind |-> "none", err |-> "", val |-> <<>>]

ReturnSelf == [kind |-> "self", err |-> "", val |-> <<>>]

Raise(e) == [kind |-> "error", err |-> e, val |-> <<>>]

Return(v) == [kind |-> "value", err |-> "", val |-> v]

----------------------------------------------------------------------------
(* Pure parts of the source *)

Min(a, b) == IF a <= b THEN a ELSE b

RECURSIVE DotUpTo(_, _, _)
DotUpTo(xi, w, k) ==
    IF k = 0 THEN 0 ELSE DotUpTo(xi, w, k - 1) + xi[k] * w[k]

\* np.dot(xi, w[1:])
Dot(xi, w) == DotUpTo(xi, w, Len(xi))

\* line 78 on one sample
net_input(w, xi) == Dot(xi, w) + w[0]

\* a step function that excludes the threshold itself
PredictStrict(w, xi) == IF net_input(w, xi) > Threshold * Denom THEN 1 ELSE -1

\* the usual perceptron step function, with its threshold at zero
PredictZeroThreshold(w, xi) == IF net_input(w, xi) >= 0 THEN 1 ELSE -1

\* line 89 on one sample

predict(w, xi) == IF net_input(w, xi) >= Threshold * Denom THEN 1 ELSE -1

\* the supervised Hebb rule, which uses the target
HebbTarget(w, xi, target) == eta * target

\* line 49

hebb_update(w, xi, target) == eta * predict(w, xi)

\* an update that forgets the bias
UpdateNoBias(w, xi, upd) ==
    [j \in DOMAIN w |-> IF j = 0 THEN w[0] ELSE w[j] + upd * xi[j]]

\* lines 52-53

UpdateWeights(w, xi, upd) ==
    [j \in DOMAIN w |-> IF j = 0 THEN w[0] + upd ELSE w[j] + upd * xi[j]]

\* line 56
CountError(upd) == IF upd # 0 THEN 1 ELSE 0

\* np.zeros(1 + n)
Zeros(n) == [j \in 0..n |-> 0]

\* number of pairs zip(X, y) yields
ZipLen(Xa, ya) == Min(Len(Xa.rows), Len(ya))

----------------------------------------------------------------------------
(* fit as a function of its arguments, for an instance with the current    *)
(* eta and n_iter: lines 32-58 run to the end                              *)

RECURSIVE FitSamples(_, _, _, _)
FitSamples(st, Xa, ya, k) ==
    IF k = 0 THEN st
    ELSE LET p == FitSamples(st, Xa, ya, k - 1)
             u == hebb_update(p.w, Xa.rows[k], ya[k])
         IN [w |-> UpdateWeights(p.w, Xa.rows[k], u),
             errors |-> p.errors + CountError(u),
             errors_ |-> p.errors_]

RECURSIVE FitEpochs(_, _, _, _)
FitEpochs(st, Xa, ya, e) ==
    IF e = 0 THEN st
    ELSE LET p == FitEpochs(st, Xa, ya, e - 1)
             q == FitSamples([p EXCEPT !.errors = 0], Xa, ya, ZipLen(Xa, ya))
         IN [q EXCEPT !.errors_ = Append(q.errors_, q.errors)]

fit(Xa, ya) ==
    FitEpochs([w |-> Zeros(Xa.nf), errors |-> 0, errors_ |-> <<>>],
              Xa, ya, n_iter)

----------------------------------------------------------------------------
(* The state machine *)

\* __init__, lines 16-18
Init ==
    /\ eta \in EtaVals
    /\ n_iter \in 1..MaxIter
    /\ attrs = {}
    /\ w_ = <<>>
    /\ errors_ = <<>>
    /\ pc = "idle"
    /\ X = EmptyFlat
    /\ y = <<>>
    /\ epoch = 0
    /\ i = 0
    /\ errors = 0
    /\ refit = FALSE
    /\ call = "none"
    /\ arg = NoArg
    /\ out = Nothing

\* a re-fit that keeps the weights of the earlier fit
FitCallCarry(Xa, ya) ==
    /\ pc = "idle"
    /\ call' = "fit"
    /\ arg' = NoArg
    /\ IF Xa.ndim < 2
       THEN /\ out' = Raise("IndexError")
            /\ UNCHANGED <<eta, n_iter, attrs, w_, errors_, pc, X, y, epoch,
                           i, errors, refit>>
       ELSE /\ w_' = IF "w_" \in attrs /\ DOMAIN w_ = 0..Xa.nf
                     THEN w_ ELSE Zeros(Xa.nf)
            /\ errors_' = <<>>
            /\ attrs' = {"w_", "errors_"}
            /\ refit' = ("w_" \in attrs)
            /\ X' = Xa
            /\ y' = ya
            /\ epoch' = 0
            /\ i' = 0
            /\ errors' = 0
            /\ pc' = "epoch"
            /\ out' = Nothing
            /\ UNCHANGED <<eta, n_iter>>

\* a re-fit that goes on appending to the earlier error history
FitCallKeepErrors(Xa, ya) ==
    /\ pc = "idle"
    /\ call' = "fit"
    /\ arg' = NoArg
    /\ IF Xa.ndim < 2
       THEN /\ out' = Raise("IndexError")
            /\ UNCHANGED <<eta, n_iter, attrs, w_, errors_, pc, X, y, epoch,
                           i, errors, refit>>
       ELSE /\ w_' = Zeros(Xa.nf)
            /\ errors_' = IF "errors_" \in attrs THEN errors_ ELSE <<>>
            /\ attrs' = {"w_", "errors_"}
            /\ refit' = ("w_" \in attrs)
            /\ X' = Xa
            /\ y' = ya
            /\ epoch' = 0
            /\ i' = 0
            /\ errors' = 0
            /\ pc' = "epoch"
            /\ out' = Nothing
            /\ UNCHANGED <<eta, n_iter>>

\* fit is called: lines 32-35.  X.shape[1] of a 1-d array raises IndexError
\* before anything is assigned.
FitCall(Xa, ya) ==
    /\ pc = "idle"
    /\ call' = "fit"
    /\ arg' = NoArg
    /\ IF Xa.ndim < 2
       THEN /\ out' = Raise("IndexError")
            /\ UNCHANGED <<eta, n_iter, attrs, w_, errors_, pc, X, y, epoch,
                           i, errors, refit>>
       ELSE /\ w_' = Zeros(Xa.nf)
            /\ errors_' = <<>>
            /\ attrs' = {"w_", "errors_"}
            /\ refit' = ("w_" \in attrs)
            /\ X' = Xa
            /\ y' = ya
            /\ epoch' = 0
            /\ i' = 0
            /\ errors' = 0
            /\ pc' = "epoch"
            /\ out' = Nothing
            /\ UNCHANGED <<eta, n_iter>>

\* lines 37-39: the next iteration of range(self.n_iter) starts
EpochStart ==
    /\ pc = "epoch"
    /\ epoch < n_iter
    /\ errors' = 0
    /\ i' = 1
    /\ pc' = "sample"
    /\ UNCHANGED <<eta, n_iter, attrs, w_, errors_, X, y, epoch, refit,
                   call, arg, out>>

\* lines 43-56: one pair of zip(X, y)
SampleStep ==
    /\ pc = "sample"
    /\ i <= ZipLen(X, y)
    /\ LET xi == X.rows[i]
           target == y[i]
           u == hebb_update(w_, xi, target)
       IN /\ w_' = UpdateWeights(w_, xi, u)
          /\ errors' = errors + CountError(u)
    /\ i' = i + 1
    /\ UNCHANGED <<eta, n_iter, attrs, errors_, pc, X, y, epoch, refit,
                   call, arg, out>>

\* line 58: zip(X, y) is exhausted
EpochEnd ==
    /\ pc = "sample"
    /\ i > ZipLen(X, y)
    /\ errors_' = Append(errors_, errors)
    /\ epoch' = epoch + 1
    /\ pc' = "epoch"
    /\ UNCHANGED <<eta, n_iter, attrs, w_, X, y, i, errors, refit,
                   call, arg, out>>

\* lines 60-63: range(self.n_iter) is exhausted, fit prints and returns self
FitReturn ==
    /\ pc = "epoch"
    /\ epoch >= n_iter
    /\ pc' = "idle"
    /\ out' = ReturnSelf
    /\ UNCHANGED <<eta, n_iter, attrs, w_, errors_, X, y, epoch, i, errors,
                   refit, call, arg>>

\* whether np.dot(a, self.w_[1:]) is defined for every row of a
Aligned(a) == \A k \in 1..Len(a.rows) : DOMAIN w_ = 0..Len(a.rows[k])

\* an untrained instance answered as if its weights were all zero
NetInputResultDefault(a) ==
    IF "w_" \notin attrs
    THEN Return([k \in 1..Len(a.rows) |-> 0])
    ELSE IF ~Aligned(a) THEN Raise("ValueError")
    ELSE Return([k \in 1..Len(a.rows) |-> net_input(w_, a.rows[k])])

\* line 78 on a sample or a batch
NetInputResult(a) ==
    IF "w_" \notin attrs THEN Raise("AttributeError")
    ELSE IF ~Aligned(a) THEN Raise("ValueError")
    ELSE Return([k \in 1..Len(a.rows) |-> net_input(w_, a.rows[k])])

\* line 89 on a sample or a batch
PredictResult(a) ==
    LET n == NetInputResult(a)
    IN IF n.kind = "error" THEN n
       ELSE Return([k \in 1..Len(a.rows) |-> predict(w_, a.rows[k])])

\* a net_input that consumes the bias it has added
NetInputCallWrites(a) ==
    /\ pc = "idle"
    /\ call' = "net_input"
    /\ arg' = a
    /\ out' = NetInputResult(a)
    /\ w_' = IF "w_" \in attrs /\ Aligned(a)
             THEN [w_ EXCEPT ![0] = 0] ELSE w_
    /\ UNCHANGED <<eta, n_iter, attrs, errors_, pc, X, y, epoch, i,
                   errors, refit>>

\* net_input called from outside, lines 65-78
NetInputCall(a) ==
    /\ pc = "idle"
    /\ call' = "net_input"
    /\ arg' = a
    /\ out' = NetInputResult(a)
    /\ UNCHANGED <<eta, n_iter, attrs, w_, errors_, pc, X, y, epoch, i,
                   errors, refit>>

\* predict called from outside, lines 80-89
PredictCall(a) ==
    /\ pc = "idle"
    /\ call' = "predict"
    /\ arg' = a
    /\ out' = PredictResult(a)
    /\ UNCHANGED <<eta, n_iter, attrs, w_, errors_, pc, X, y, epoch, i,
                   errors, refit>>

Fit == \E Xa \in FitInputs : \E ya \in LabelSeqs(Xa) : FitCall(Xa, ya)

NetInput == \E a \in CallInputs : NetInputCall(a)

Predict == \E a \in CallInputs : PredictCall(a)

Next ==
    \/ Fit
    \/ EpochStart
    \/ SampleStep
    \/ EpochEnd
    \/ FitReturn
    \/ NetInput
    \/ Predict

Spec == Init /\ [][Next]_vars

----------------------------------------------------------------------------
(* net_input and predict as functions of the weights and the input: the    *)
(* instance right after one fit, over a wider range of training sets and   *)
(* inputs, so that net inputs below, at and above the threshold occur.     *)

TrainRows ==
    {<<-80>>, <<-9>>, <<0>>, <<9>>, <<80>>, <<1, 2>>, <<0, 0>>, <<-9, 9>>, <<9, 1>>}

TrainSets ==
    UNION {{[ndim |-> 2, nf |-> n, rows |-> r] :
                r \in UNION {[1..k -> {t \in TrainRows : Len(t) = n}] : k \in 1..2}} :
            n \in {Len(t) : t \in TrainRows}}

WideInputs ==
    CallInputs \cup
    {[batch |-> FALSE, rows |-> <<r>>] : r \in {<<-1>>, <<1>>, <<-9, 0>>, <<9, -1>>}}

\* the state in which fit(Xa, ya) returns, lines 32-63
PredictInit ==
    /\ eta \in EtaVals
    /\ n_iter = 1
    /\ X \in TrainSets
    /\ y = [k \in 1..Len(X.rows) |-> 1]
    /\ attrs = {"w_", "errors_"}
    /\ w_ = fit(X, y).w
    /\ errors_ = fit(X, y).errors_
    /\ pc = "idle"
    /\ epoch = n_iter
    /\ i = ZipLen(X, y) + 1
    /\ errors = fit(X, y).errors
    /\ refit = FALSE
    /\ call = "fit"
    /\ arg = NoArg
    /\ out = ReturnSelf

PredictNext ==
    \/ \E a \in WideInputs : NetInputCall(a)
    \/ \E a \in WideInputs : PredictCall(a)

PredictSpec == PredictInit /\ [][PredictNext]_vars

----------------------------------------------------------------------------
(* Properties *)

\* the last call was a fit and it has returned
FitReturned == pc = "idle" /\ call = "fit" /\ out.kind = "self"

\* a fit call is running or was the last call and has returned
FitSeen == pc # "idle" \/ FitReturned

\* y is as long as X
Paired == Len(y) = Len(X.rows)

Trained == attrs = {"w_", "errors_"}

Untrained == attrs = {}

RECURSIVE RefSum(_, _)
RefSum(f, k) == IF k = 0 THEN 0 ELSE RefSum(f, k - 1) + f[k]

\* the net input as the specification states it: dot product plus bias
RefNet(w, xi) == w[0] + RefSum([j \in 1..Len(xi) |-> xi[j] * w[j]], Len(xi))

RefOut(w, xi) == IF RefNet(w, xi) >= 80 * Denom THEN 1 ELSE -1

\* one sample of the reference fold
RefSample(w, xi) ==
    LET delta == eta * RefOut(w, xi)
    IN [j \in 0..Len(xi) |-> IF j = 0 THEN w[0] + delta ELSE w[j] + delta * xi[j]]

RECURSIVE RefPass(_, _, _)
RefPass(w, rows, k) ==
    IF k = 0 THEN w ELSE RefSample(RefPass(w, rows, k - 1), rows[k])

RECURSIVE RefFold(_, _, _)
RefFold(w, rows, e) ==
    IF e = 0 THEN w ELSE RefPass(RefFold(w, rows, e - 1), rows, Len(rows))

\* C1: when fit(X, y) has returned (y as long as X), w_ is the reference
\* fold: from all zeros, n_iter passes over the samples in order, each
\* adding eta * predict(xi) times (1, xi) to the weights of that moment.
\* eta = 0.5, n_iter = 1, X = [[1.0, 2.0]] ends with w_ = [-0.5, -0.5, -1.0].
C1_FitIsReferenceFold ==
    (FitReturned /\ Paired) =>
        /\ w_ = RefFold([j \in 0..X.nf |-> 0], X.rows, n_iter)
        /\ (eta = 1 /\ n_iter = 1 /\ X.rows = <<<<1, 2>>>>) =>
                w_ = (0 :> -1 @@ 1 :> -1 @@ 2 :> -2)

C1_Witness ==
    /\ FitReturned /\ Paired
    /\ eta = 1 /\ n_iter = 1 /\ X.rows = <<<<1, 2>>>>
    /\ w_[0] = -1 /\ w_[1] = -1 /\ w_[2] = -2

\* C2: predict answers 1 where the net input (dot product of the sample
\* with w_[1:], plus the bias w_[0]) is at least 80, and -1 elsewhere,
\* and nothing else; a net input of exactly 80 gives 1.
C2_PredictIsThreshold ==
    (call = "predict" /\ out.kind = "value") =>
        /\ Len(out.val) = Len(arg.rows)
        /\ \A k \in 1..Len(arg.rows) :
            /\ out.val[k] \in {1, -1}
            /\ out.val[k] = 1 <=> RefNet(w_, arg.rows[k]) >= 80 * Denom

C2_Witness ==
    /\ call = "predict" /\ out.kind = "value" /\ ~arg.batch
    /\ RefNet(w_, arg.rows[1]) = 80 * Denom
    /\ out.val = <<1>>

\* errors_ one step later is errors_ with exactly one entry appended
GrowsByOne == Len(errors_') = Len(errors_) + 1 /\ SubSeq(errors_', 1, Len(errors_)) = errors_

\* C3: while fit runs errors_ has one entry per finished epoch, it gets
\* exactly one more entry at the end of each epoch and is otherwise left as
\* it is (also by net_input and predict), and when fit has returned it has
\* n_iter entries, whatever it held before the call.
C3_ErrorHistoryGrowth ==
    /\ [](pc # "idle" => Len(errors_) = epoch)
    /\ [](FitReturned => Len(errors_) = n_iter)
    /\ [][IF pc = "sample" /\ pc' = "epoch" THEN GrowsByOne
          ELSE IF pc = "idle" /\ pc' # "idle" THEN errors_' = <<>>
          ELSE errors_' = errors_]_vars

C3_Witness ==
    FitReturned /\ refit /\ n_iter = 2 /\ Len(errors_) = 2 /\ errors_[1] = 2

\* C4: the weights and the error history with which a fit returns are
\* those of the same fit on a fresh instance with this eta and n_iter: they
\* are a function of X and y alone, also when the instance was trained
\* before on other data.
C4_RefitEqualsFreshFit ==
    FitReturned => (w_ = fit(X, y).w /\ errors_ = fit(X, y).errors_)

C4_Witness ==
    FitReturned /\ refit /\ Len(X.rows) = 2 /\ Paired /\ w_[0] # 0

C6_UntrainedThenTrained ==
    /\ Untrained
    /\ [](Untrained \/ Trained)
    /\ []((Untrained /\ call \in {"net_input", "predict"}) => out.kind = "error")
    /\ [](FitReturned => Trained)
    /\ [][Trained => Trained']_vars

C6_Witness ==
    Untrained /\ call = "predict" /\ out = Raise("AttributeError")

\* C7: fit on a training set of zero samples ends in an error (so no fit
\* that got past its first lines, or that returned, was given zero
\* samples), and a fit that ends in an error leaves w_ and errors_ alone.
C7_EmptyFitFails ==
    /\ []((call = "fit" /\ out.kind # "error") => Len(X.rows) > 0)
    /\ [][(call' = "fit" /\ out'.kind = "error") =>
            UNCHANGED <<w_, errors_, attrs>>]_vars

\* a step that is a call of net_input or predict from outside
InferenceStep ==
    pc = "idle" /\ pc' = "idle" /\ call' \in {"net_input", "predict"}

\* C8: a call of net_input or predict, on a sample or a batch, leaves w_,
\* errors_, eta and n_iter as they are, and its answer on a trained
\* instance is the one the weights of the last fit give for that input.
C8_InferenceIsPure ==
    [][InferenceStep =>
        /\ UNCHANGED <<w_, errors_, attrs, eta, n_iter>>
        /\ out'.kind = "value" =>
            \A k \in 1..Len(arg'.rows) :
                out'.val[k] = IF call' = "predict"
                              THEN predict(fit(X, y).w, arg'.rows[k])
                              ELSE net_input(fit(X, y).w, arg'.rows[k])]_vars

C8_Witness ==
    /\ pc = "idle" /\ call = "net_input" /\ arg.batch /\ out.kind = "value"
    /\ w_ = fit(X, y).w /\ w_[0] # 0

\* the misclassifications of one pass: samples whose predicted label, with
\* the weights of that moment, is not the target
RECURSIVE Misclassified(_, _, _, _)
Misclassified(w, Xa, ya, k) ==
    IF k = 0 THEN [w |-> w, n |-> 0]
    ELSE LET p == Misclassified(w, Xa, ya, k - 1)
             o == predict(p.w, Xa.rows[k])
         IN [w |-> UpdateWeights(p.w, Xa.rows[k], eta * o),
             n |-> p.n + (IF o # ya[k] THEN 1 ELSE 0)]

RECURSIVE MisclassifiedHistory(_, _, _, _)
MisclassifiedHistory(w, Xa, ya, e) ==
    IF e = 0 THEN [w |-> w, h |-> <<>>]
    ELSE LET p == MisclassifiedHistory(w, Xa, ya, e - 1)
             q == Misclassified(p.w, Xa, ya, ZipLen(Xa, ya))
         IN [w |-> q.w, h |-> Append(p.h, q.n)]

\* C9: when fit has returned, each entry of errors_ is the number of
\* samples of its epoch whose predicted label differed from the target in y.
C9_ErrorsCountMisclassifications ==
    FitReturned => errors_ = MisclassifiedHistory(Zeros(X.nf), X, y, n_iter).h

NonNegative(Xa) ==
    \A k \in 1..Len(Xa.rows) : \A j \in 1..Len(Xa.rows[k]) : Xa.rows[k][j] >= 0

RECURSIVE ColumnSum(_, _, _)
ColumnSum(rows, j, k) ==
    IF k = 0 THEN 0 ELSE ColumnSum(rows, j, k - 1) + rows[k][j]

====
